---- MODULE Spec2Model ----
(***************************************************************************)
(* Per-conversation chat agent (Cloudflare Durable Object / Agent).        *)
(*                                                                         *)
(* The repository holds five variants of the actor class:                  *)
(*   "basic"   src/unnamed/part_000:4     ChatAgent extends DurableObject  *)
(*   "search"  src/worker.js:4            ChatAgent with web search        *)
(*   "sdk"     src/worker.js:963          ChatAgent extends Agent          *)
(*                                        (onConnect / onMessage)          *)
(*   "agent"   src/worker.js:1139         ChatAgent extends Agent          *)
(*                                        (fetch / handleMessage)          *)
(*   "ts"      src/worker.ts:10           MyAgent.onRequest                *)
(* A deployment runs one of them; the variable variant says which.         *)
(*                                                                         *)
(* Scheduling.  A handler is an async JavaScript function of a Durable     *)
(* Object: it runs without interruption up to an await.  While a storage   *)
(* operation (ctx.storage.get/put, getState/setState) is awaited the       *)
(* object's input gate keeps other events out, so a storage await is part  *)
(* of the step around it.  An await of this.env.AI.run or of the search    *)
(* fetch is not a storage operation: while a handler is suspended there,   *)
(* the object delivers further events (frames, requests, connects, close)  *)
(* to the same instance.  None of the five classes takes a lock or uses    *)
(* blockConcurrencyWhile.  Each handler is therefore two (with search,     *)
(* three) atomic steps, split at those awaits.                             *)
(*                                                                         *)
(* getState() is modelled as reading the persisted state object and        *)
(* setState(o) as replacing it by o, field for field as the code writes    *)
(* it.  Timestamps are kept only as present / not present.                 *)
(***************************************************************************)
EXTENDS Integers, Sequences, FiniteSets, TLC

\* ---------------------------------------------------------------- bounds
MaxFrames == 2      \* inbound frames / requests in one behaviour
MaxClears == 2      \* clear operations are counted up to this number
MaxTurns == 6       \* chat turns an actor may hold when a behaviour starts

Names == {"A", "B"}            \* identifiers a client puts in ?id=
Uuids == {"U1", "U2"}          \* identifiers crypto.randomUUID() generates
Actors == Names \cup Uuids      \* identifiers the router resolves
Sessions == {1, 2}              \* websocket connections, in order of arrival
Http == 0                       \* origin of a request that is not a websocket frame
Origins == Sessions \cup {Http}
Variants == {"basic", "search", "sdk", "agent", "ts"}

\* ---------------------------------------------------------------- values
Undefined == "undefined"        \* JavaScript undefined / a missing field

\* result.markdown.substring(0, 500)
SnippetChars == 500

\* response texts of the handlers
DefaultText == "Sorry, I couldn't process that."
DefaultTextTs == "I couldn't generate a response."
ErrProcess == "Failed to process message"
ErrHandle == "Failed to process your message. Please try again."

\* JavaScript falsiness of a text value: x || y takes y
Falsy(x) == x \in {Undefined, ""}

\* what a client may put on the wire: text that is not JSON, the frame the
\* page's sendMessage builds, the same with a type no protocol names, a
\* frame that carries its text under another key, and a question
InvalidFrame == [json |-> "invalid", type |-> Undefined, content |-> Undefined]
ChatFrame == [json |-> "object", type |-> Undefined, content |-> "hello"]
BogusFrame == [json |-> "object", type |-> "bogus", content |-> "hello"]
NoContentFrame == [json |-> "object", type |-> "chat", content |-> Undefined]
QuestionFrame == [json |-> "object", type |-> Undefined, content |-> "What is TLA"]
RawFrames == {InvalidFrame, ChatFrame, BogusFrame, NoContentFrame, QuestionFrame}

\* what this.env.AI.run may do: reject, be absent, or resolve to an object
AIText == [kind |-> "value", response |-> "reply", nested |-> Undefined]
AIThrows == [kind |-> "throws", response |-> Undefined, nested |-> Undefined]
AIMissing == [kind |-> "value", response |-> Undefined, nested |-> Undefined]
AIOutcomes ==
  { AIThrows, AIText, AIMissing,
    [kind |-> "unavailable", response |-> Undefined, nested |-> Undefined],
    [kind |-> "value",       response |-> Undefined, nested |-> "reply"],
    [kind |-> "value",       response |-> "",        nested |-> Undefined] }

\* results of the search API, named by their rank, each with the number of
\* characters of its markdown text (0: the result has none)
Results4 ==
  << [rank |-> 1, markdown |-> 600], [rank |-> 2, markdown |-> 0],
     [rank |-> 3, markdown |-> 500], [rank |-> 4, markdown |-> 20] >>
Results2 == SubSeq(Results4, 1, 2)

\* what searchWeb may resolve to: null (the fetch threw or the status was not
\* OK), or the data array of the search API
SearchFailed == [ok |-> FALSE, data |-> <<>>]
SearchEmpty == [ok |-> TRUE, data |-> <<>>]
SearchOutcomes ==
  { SearchFailed, SearchEmpty,
    [ok |-> TRUE, data |-> Results2], [ok |-> TRUE, data |-> Results4] }

VARIABLES
  variant,    \* which class is deployed
  client,     \* the page: its websocket, reconnectAttempts, pending timers
  store,      \* per actor: the persisted state (storage key / agent state)
  mem,        \* per actor: this.state.history of the live instance (ts)
  sess,       \* per session: owning actor and status
  calls,      \* per inbound frame: its handler's position and locals
  received,   \* number of frames the actors have received so far
  outbox,     \* per origin: the frames / responses delivered to it
  clearResp,  \* per actor: the response of its last clear operation
  clears      \* number of clear operations so far, up to MaxClears

vars == <<variant, client, store, mem, sess, calls, received, outbox, clearResp, clears>>

\* ---------------------------------------------------------------- records
\* the state object before anything was stored
NoState ==
  [hasHistory |-> FALSE, conversationHistory |-> <<>>, createdAt |-> FALSE,
   lastInteraction |-> FALSE, userPreferences |-> FALSE]

\* (await storage.get("conversationHistory")) || []   /   state.conversationHistory || []
HistoryOf(st) == IF st.hasHistory THEN st.conversationHistory ELSE <<>>

\* a stored message; f is the frame it belongs to (0: none)
Message(role, content, f, hasSearch) ==
  [role |-> role, content |-> content, f |-> f, hasSearch |-> hasSearch]

\* initialState of MyAgent
initialState == << Message("system", "You are a helpful assistant.", 0, Undefined) >>

\* frames sent to a client
Frame(type, f, response, messageCount, searchUsed, results) ==
  [type |-> type, f |-> f, response |-> response, messageCount |-> messageCount,
   searchUsed |-> searchUsed, results |-> results]
Welcome == Frame("welcome", 0, Undefined, 0, Undefined, <<>>)
ErrorFrame(f, text) == Frame("error", f, text, 0, Undefined, <<>>)
ReplyFrame(f, text, n, searchUsed) == Frame("reply", f, text, n, searchUsed, <<>>)
StatusFrame(f, text) == Frame("status", f, text, 0, Undefined, <<>>)
SearchFrame(f, results) == Frame("search", f, Undefined, 0, Undefined, results)
\* new Response("Not Found", {status: 404})
NotFound(f) == Frame("notfound", f, Undefined, 0, Undefined, <<>>)

\* no response yet
NoResponse == [success |-> FALSE, message |-> Undefined]

\* a frame that has not arrived yet
NoCall ==
  [pc |-> "idle", actor |-> "A", sess |-> Http, raw |-> InvalidFrame, history |-> <<>>,
   needsSearch |-> FALSE, searchContext |-> <<>>, messages |-> <<>>,
   ai |-> "none", outcome |-> "none"]

\* a send that succeeds on any socket, closed or not
SessAny(s) == s \in Origins

\* ws.send succeeds on an open socket; a Response always reaches its request
SessOpen(s) == s = Http \/ sess[s].status = "open"

\* the page once its script has run: connectWebSocket() was called
NoClient == [ws |-> "connecting", reconnectAttempts |-> 0, timers |-> 0, delay |-> 0]

\* ---------------------------------------------------------------- Init
Init ==
  /\ variant \in Variants
  /\ client = NoClient
  /\ store = [a \in Actors |-> NoState]
  /\ mem = [a \in Actors |-> IF variant = "ts" THEN initialState ELSE <<>>]
  /\ sess = [s \in Sessions |-> [actor |-> "A", status |-> "unused"]]
  /\ calls = [f \in 1..MaxFrames |-> NoCall]
  /\ received = 0
  /\ outbox = [o \in Origins |-> <<>>]
  /\ clearResp = [a \in Actors |-> NoResponse]
  /\ clears = 0

\* ---------------------------------------------------------------- helpers
\* this.ctx.acceptWebSocket(server)
Accept(s, a) == [sess EXCEPT ![s] = [actor |-> a, status |-> "open"]]

\* a frame sent to its origin and to every other open session as well
Broadcast(o, frame) ==
  [x \in Origins |->
     IF x = o \/ (x \in Sessions /\ SessOpen(x)) THEN Append(outbox[x], frame)
     ELSE outbox[x]]

\* ws.send(JSON.stringify(frame)) on an open socket / the Response of a request
Deliver(o, frame) == [outbox EXCEPT ![o] = Append(@, frame)]

\* connections are numbered in order of arrival
NextSession(s) ==
  /\ sess[s].status = "unused"
  /\ \A t \in Sessions : t < s => sess[t].status # "unused"

\* one more clear operation
Counted == IF clears < MaxClears THEN clears + 1 ELSE clears

\* how an inference call ended, as the handler sees it: it failed (rejected, or
\* the binding is absent), or it gave the text the handler reads, or none
AIResult(out, text) ==
  IF out.kind # "value" THEN "failed" ELSE IF Falsy(text) THEN "empty" ELSE "text"

\* the handler of a frame has ended
Finish(c, ai, outcome) == [c EXCEPT !.pc = "done", !.ai = ai, !.outcome = outcome]

\* a handler suspended on an external call (pc: "search" or "ai"); messages
\* is what it handed to this.env.AI.run
Suspend(pc, a, s, raw, history, needsSearch, messages) ==
  [pc |-> pc, actor |-> a, sess |-> s, raw |-> raw, history |-> history,
   needsSearch |-> needsSearch, searchContext |-> <<>>, messages |-> messages,
   ai |-> "none", outcome |-> "none"]

\* a handler that ended before reaching an external call
Ended(a, s, raw, outcome) ==
  [pc |-> "done", actor |-> a, sess |-> s, raw |-> raw, history |-> <<>>,
   needsSearch |-> FALSE, searchContext |-> <<>>, messages |-> <<>>,
   ai |-> "none", outcome |-> outcome]

\* the user message put in front of the history instead of at its end
PushUserFront(history, content, f) ==
  << Message("user", content, f, Undefined) >> \o history

\* history.push({role: "user", content, timestamp})
PushUser(history, content, f) == Append(history, Message("user", content, f, Undefined))

\* history.push(assistantMessage)
PushAssistant(history, content, f, hasSearch) ==
  Append(history, Message("assistant", content, f, hasSearch))

\* the boolean b as JSON carries it
Bool(b) == IF b THEN "true" ELSE "false"

\* the system directive of the websocket classes, and the one the search
\* class uses when it detected search intent (the search results follow it)
SystemDirective == "You are a helpful AI assistant. Be concise and friendly."
SearchDirective == "You are a helpful AI assistant with access to current web information."

\* history.slice(-k)
SliceLast(history, k) ==
  IF Len(history) <= k THEN history ELSE SubSeq(history, Len(history) - k + 1, Len(history))

\* msg => ({role: msg.role, content: msg.content})
RoleContent(msg) == [msg EXCEPT !.hasSearch = Undefined]

\* aiMessages: [{role: "system", content: systemPrompt}, ...history.slice(-10).map(...)]
aiMessages(systemPrompt, history) ==
  << Message("system", systemPrompt, 0, Undefined) >>
    \o [i \in DOMAIN SliceLast(history, 10) |-> RoleContent(SliceLast(history, 10)[i])]

\* messages: [{role: "system", ...}, ...history.slice(-10)] of the Agent classes
agentMessages(history) ==
  << Message("system", SystemDirective, 0, Undefined) >> \o SliceLast(history, 10)

\* ================================================================ basic
\* aiResponse.response || aiResponse.result?.response || "Sorry, ..."
ResponseText(out) ==
  IF ~Falsy(out.response) THEN out.response
  ELSE IF ~Falsy(out.nested) THEN out.nested
  ELSE DefaultText

\* a write that keeps only the messages of the context window
PutWindow(st, history) ==
  [st EXCEPT !.hasHistory = TRUE, !.conversationHistory = SliceLast(history, 10)]

\* await this.ctx.storage.put("conversationHistory", history)
PutHistory(st, history) ==
  [st EXCEPT !.hasHistory = TRUE, !.conversationHistory = history]

\* fetch, Upgrade: websocket (the same code in both Durable Object classes)
fetchUpgrade(a, s) ==
  /\ variant \in {"basic", "search"}
  /\ NextSession(s)
  /\ sess' = Accept(s, a)
  /\ outbox' = Deliver(s, Welcome)
  /\ UNCHANGED <<variant, client, store, mem, calls, received, clearResp, clears>>

\* a clear that drops the oldest message only
fetchClearOldest(a) ==
  /\ variant \in {"basic", "search"}
  /\ store' = [store EXCEPT ![a] =
                 PutHistory(@, IF HistoryOf(@) = <<>> THEN <<>> ELSE Tail(HistoryOf(@)))]
  /\ clearResp' = [clearResp EXCEPT ![a] = [success |-> TRUE, message |-> Undefined]]
  /\ clears' = Counted
  /\ UNCHANGED <<variant, client, mem, sess, calls, received, outbox>>

\* a clear that reaches the storage of every actor
fetchClearEvery(a) ==
  /\ variant \in {"basic", "search"}
  /\ store' = [b \in Actors |-> PutHistory(store[b], <<>>)]
  /\ clearResp' = [clearResp EXCEPT ![a] = [success |-> TRUE, message |-> Undefined]]
  /\ clears' = Counted
  /\ UNCHANGED <<variant, client, mem, sess, calls, received, outbox>>

\* fetch, POST /clear (the same code in both Durable Object classes)
fetchClear(a) ==
  /\ variant \in {"basic", "search"}
  /\ store' = [store EXCEPT ![a] = PutHistory(@, <<>>)]
  /\ clearResp' = [clearResp EXCEPT ![a] = [success |-> TRUE, message |-> Undefined]]
  /\ clears' = Counted
  /\ UNCHANGED <<variant, client, mem, sess, calls, received, outbox>>

\* webSocketMessage up to the await of this.env.AI.run
webSocketMessage(s, raw, getOk) ==
  /\ variant = "basic"
  /\ sess[s].status = "open"
  /\ received < MaxFrames
  /\ LET f == received + 1
         a == sess[s].actor
         threw == raw.json = "invalid" \/ ~getOk
         history == PushUser(HistoryOf(store[a]), raw.content, f)
     IN /\ received' = f
        /\ IF threw
             THEN /\ calls' = [calls EXCEPT ![f] = Ended(a, s, raw, "error")]
                  /\ outbox' = Deliver(s, ErrorFrame(f, ErrProcess))
             ELSE /\ calls' = [calls EXCEPT ![f] =
                                Suspend("ai", a, s, raw, history, FALSE,
                                        aiMessages(SystemDirective, history))]
                  /\ UNCHANGED outbox
  /\ UNCHANGED <<variant, client, store, mem, sess, clearResp, clears>>

\* webSocketMessage from the return of this.env.AI.run to its end
webSocketMessageResume(f, out, putOk) ==
  /\ variant = "basic"
  /\ calls[f].pc = "ai"
  /\ LET c == calls[f]
         responseText == ResponseText(out)
         history == PushAssistant(c.history, responseText, f, Undefined)
         stored == out.kind = "value" /\ putOk
         open == SessOpen(c.sess)
     IN /\ store' = IF stored THEN [store EXCEPT ![c.actor] = PutHistory(@, history)]
                    ELSE store
        /\ outbox' = IF ~open THEN outbox
                     ELSE IF stored
                       THEN Deliver(c.sess, ReplyFrame(f, responseText, Len(history), Undefined))
                       ELSE Deliver(c.sess, ErrorFrame(f, ErrProcess))
        /\ calls' = [calls EXCEPT ![f] =
                       Finish(c, AIResult(out, IF Falsy(out.response) THEN out.nested
                                               ELSE out.response),
                              IF ~open THEN "uncaught"
                              ELSE IF stored THEN "success" ELSE "error")]
  /\ UNCHANGED <<variant, client, mem, sess, received, clearResp, clears>>

\* the client closes its socket; webSocketClose runs
webSocketClose(s) ==
  /\ sess[s].status = "open"
  /\ sess' = [sess EXCEPT ![s].status = "closed"]
  /\ UNCHANGED <<variant, client, store, mem, calls, received, outbox, clearResp, clears>>

\* ================================================================ search
\* the characters of a message text
Chars(text) ==
  CASE text = "hello" -> <<"h","e","l","l","o">>
    [] text = "What is TLA" -> <<"W","h","a","t"," ","i","s"," ","T","L","A">>
    [] text = "thanks!" ->
         <<"t","h","a","n","k","s","!">>
    [] text = "THANKS!" ->
         <<"T","H","A","N","K","S","!">>
    [] text = "what is the capital of France" ->
         <<"w","h","a","t"," ","i","s"," ","t","h","e"," ","c","a","p","i","t","a","l"," ","o","f"," ","F","r","a","n","c","e">>
    [] text = "WHAT IS THE CAPITAL OF FRANCE" ->
         <<"W","H","A","T"," ","I","S"," ","T","H","E"," ","C","A","P","I","T","A","L"," ","O","F"," ","F","R","A","N","C","E">>
    [] text = "refined" ->
         <<"r","e","f","i","n","e","d">>

UpperCase == <<"A","B","C","D","E","F","G","H","I","J","K","L","M","N","O","P","Q","R","S","T","U","V","W","X","Y","Z">>
LowerCase == <<"a","b","c","d","e","f","g","h","i","j","k","l","m","n","o","p","q","r","s","t","u","v","w","x","y","z">>

\* a comparison that does not fold the letters' case
keepCase(chars) == chars

\* String.prototype.toLowerCase
toLowerCase(chars) ==
  [i \in 1..Len(chars) |->
     IF \E k \in 1..Len(UpperCase) : UpperCase[k] = chars[i]
       THEN LowerCase[CHOOSE k \in 1..Len(UpperCase) : UpperCase[k] = chars[i]]
       ELSE chars[i]]

\* String.prototype.includes
includes(chars, keyword) ==
  \E i \in 1..(Len(chars) - Len(keyword) + 1) :
    SubSeq(chars, i, i + Len(keyword) - 1) = keyword

searchKeywords ==
  { <<"s","e","a","r","c","h">>,
    <<"f","i","n","d">>,
    <<"l","o","o","k"," ","u","p">>,
    <<"w","h","a","t"," ","i","s">>,
    <<"w","h","o"," ","i","s">>,
    <<"w","h","e","r","e"," ","i","s">>,
    <<"w","h","e","n"," ","d","i","d">>,
    <<"l","a","t","e","s","t">>,
    <<"c","u","r","r","e","n","t">>,
    <<"r","e","c","e","n","t">>,
    <<"n","e","w","s">>,
    <<"i","n","f","o","r","m","a","t","i","o","n"," ","a","b","o","u","t">>,
    <<"t","e","l","l"," ","m","e"," ","a","b","o","u","t">>,
    <<"p","r","i","c","e"," ","o","f">>,
    <<"w","e","a","t","h","e","r">>,
    <<"h","o","w"," ","t","o">>,
    <<"t","u","t","o","r","i","a","l">>,
    <<"g","u","i","d","e">> }

\* detectSearchIntent (of a string; of undefined it throws)
detectSearchIntent(message) ==
  \E keyword \in searchKeywords : includes(toLowerCase(Chars(message)), keyword)

\* the first five results instead of the first three
Slice5(data) == SubSeq(data, 1, IF Len(data) < 5 THEN Len(data) ELSE 5)

\* searchResults.data.slice(0, 3)
Slice3(data) == SubSeq(data, 1, IF Len(data) < 3 THEN Len(data) ELSE 3)

\* the number of characters of text.substring(0, k), text having len characters
Substring(len, k) == IF len < k THEN len ELSE k

\* the lines the forEach adds to searchContext for the results found: number,
\* title and URL of each, and the first characters of its markdown if it has any
Preamble(found) ==
  [i \in DOMAIN found |->
     [index |-> i, rank |-> found[i].rank,
      snippet |-> IF found[i].markdown = 0 THEN 0
                  ELSE Substring(found[i].markdown, SnippetChars)]]

\* a search whose failure fails the turn: the handler ends with an error frame
searchWebThrows(f, res) ==
  /\ variant = "search"
  /\ calls[f].pc = "search"
  /\ calls' = [calls EXCEPT ![f] = Finish(calls[f], "none", "error")]
  /\ outbox' = IF SessOpen(calls[f].sess)
                 THEN Deliver(calls[f].sess, ErrorFrame(f, ErrProcess))
                 ELSE outbox
  /\ UNCHANGED <<variant, client, store, mem, sess, received, clearResp, clears>>

\* webSocketMessage up to the await of searchWeb or of this.env.AI.run
webSocketMessageSearch(s, raw, getOk) ==
  /\ variant = "search"
  /\ sess[s].status = "open"
  /\ received < MaxFrames
  /\ LET f == received + 1
         a == sess[s].actor
         \* JSON.parse, storage.get, or toLowerCase of undefined
         threw == raw.json = "invalid" \/ ~getOk \/ raw.content = Undefined
         history == PushUser(HistoryOf(store[a]), raw.content, f)
         needsSearch == detectSearchIntent(raw.content)
     IN /\ received' = f
        /\ IF threw
             THEN /\ calls' = [calls EXCEPT ![f] = Ended(a, s, raw, "error")]
                  /\ outbox' = Deliver(s, ErrorFrame(f, ErrProcess))
             ELSE IF needsSearch
             THEN /\ calls' = [calls EXCEPT ![f] =
                                Suspend("search", a, s, raw, history, TRUE, <<>>)]
                  /\ outbox' = Deliver(s, StatusFrame(f, "Searching the web..."))
             ELSE /\ calls' = [calls EXCEPT ![f] =
                                Suspend("ai", a, s, raw, history, FALSE,
                                        aiMessages(SystemDirective, history))]
                  /\ outbox' = Deliver(s, StatusFrame(f, "Thinking..."))
  /\ UNCHANGED <<variant, client, store, mem, sess, clearResp, clears>>

\* webSocketMessage from the return of searchWeb to the await of AI.run
searchWeb(f, res) ==
  /\ variant = "search"
  /\ calls[f].pc = "search"
  /\ LET c == calls[f]
         found == IF res.ok /\ Len(res.data) > 0 THEN Slice3(res.data) ELSE <<>>
         sent == IF found # <<>> THEN << SearchFrame(f, found) >> ELSE <<>>
     IN IF SessOpen(c.sess)
          THEN /\ outbox' = [outbox EXCEPT ![c.sess] =
                               @ \o sent \o << StatusFrame(f, "Thinking...") >>]
               /\ calls' = [calls EXCEPT ![f].pc = "ai", ![f].searchContext = Preamble(found),
                                         ![f].messages = aiMessages(SearchDirective, c.history)]
          ELSE \* ws.send throws, and throws again in the catch
               /\ calls' = [calls EXCEPT ![f] = Finish(c, "none", "uncaught")]
               /\ UNCHANGED outbox
  /\ UNCHANGED <<variant, client, store, mem, sess, received, clearResp, clears>>

\* webSocketMessage from the return of this.env.AI.run to its end
webSocketMessageSearchResume(f, out, putOk) ==
  /\ variant = "search"
  /\ calls[f].pc = "ai"
  /\ LET c == calls[f]
         responseText == ResponseText(out)
         history == PushAssistant(c.history, responseText, f, Bool(c.needsSearch))
         stored == out.kind = "value" /\ putOk
         open == SessOpen(c.sess)
     IN /\ store' = IF stored THEN [store EXCEPT ![c.actor] = PutHistory(@, history)]
                    ELSE store
        /\ outbox' = IF ~open THEN outbox
                     ELSE IF stored
                       THEN Deliver(c.sess, ReplyFrame(f, responseText, Len(history),
                                                        Bool(c.needsSearch)))
                       ELSE Deliver(c.sess, ErrorFrame(f, ErrProcess))
        /\ calls' = [calls EXCEPT ![f] =
                       Finish(c, AIResult(out, IF Falsy(out.response) THEN out.nested
                                               ELSE out.response),
                              IF ~open THEN "uncaught"
                              ELSE IF stored THEN "success" ELSE "error")]
  /\ UNCHANGED <<variant, client, mem, sess, received, clearResp, clears>>

\* ================================================================ agent
\* this.setState({conversationHistory: [], createdAt})
InitialAgentState ==
  [hasHistory |-> TRUE, conversationHistory |-> <<>>, createdAt |-> TRUE,
   lastInteraction |-> FALSE, userPreferences |-> FALSE]

\* this.setState({conversationHistory: history, lastInteraction})
SetStateHistory(history) ==
  [hasHistory |-> TRUE, conversationHistory |-> history, createdAt |-> FALSE,
   lastInteraction |-> TRUE, userPreferences |-> FALSE]

\* fetch, Upgrade: websocket
agentFetchUpgrade(a, s) ==
  /\ variant = "agent"
  /\ NextSession(s)
  /\ sess' = Accept(s, a)
  /\ store' = IF ~store[a].hasHistory THEN [store EXCEPT ![a] = InitialAgentState]
              ELSE store
  /\ outbox' = Deliver(s, Welcome)
  /\ UNCHANGED <<variant, client, mem, calls, received, clearResp, clears>>

\* fetch, POST /clear
agentFetchClear(a) ==
  /\ variant = "agent"
  /\ store' = [store EXCEPT ![a] = SetStateHistory(<<>>)]
  /\ clearResp' = [clearResp EXCEPT ![a] = [success |-> TRUE, message |-> Undefined]]
  /\ clears' = Counted
  /\ UNCHANGED <<variant, client, mem, sess, calls, received, outbox>>

\* webSocketMessage and the handleMessage it calls, up to the await of AI.run
handleMessage(s, raw, getOk) ==
  /\ variant = "agent"
  /\ sess[s].status = "open"
  /\ received < MaxFrames
  /\ LET f == received + 1
         a == sess[s].actor
         history == PushUser(HistoryOf(store[a]), raw.content, f)
     IN /\ received' = f
        /\ IF raw.json = "invalid"
             THEN \* JSON.parse throws: the catch of webSocketMessage
                  /\ calls' = [calls EXCEPT ![f] = Ended(a, s, raw, "error")]
                  /\ outbox' = Deliver(s, ErrorFrame(f, ErrProcess))
             ELSE IF ~getOk
             THEN \* getState throws: the catch of handleMessage
                  /\ calls' = [calls EXCEPT ![f] = Ended(a, s, raw, "error")]
                  /\ outbox' = Deliver(s, ErrorFrame(f, ErrHandle))
             ELSE /\ calls' = [calls EXCEPT ![f] =
                                Suspend("ai", a, s, raw, history, FALSE,
                                        agentMessages(history))]
                  /\ UNCHANGED outbox
  /\ UNCHANGED <<variant, client, store, mem, sess, clearResp, clears>>

\* handleMessage from the return of AI.run, then ws.send of what it returned
handleMessageResume(f, out, putOk) ==
  /\ variant = "agent"
  /\ calls[f].pc = "ai"
  /\ LET c == calls[f]
         history == PushAssistant(c.history, out.response, f, Undefined)
         stored == out.kind = "value" /\ putOk
         response == IF stored THEN ReplyFrame(f, out.response, Len(history), Undefined)
                     ELSE ErrorFrame(f, ErrHandle)
         open == SessOpen(c.sess)
     IN /\ store' = IF stored THEN [store EXCEPT ![c.actor] = SetStateHistory(history)]
                    ELSE store
        /\ outbox' = IF open THEN Deliver(c.sess, response) ELSE outbox
        /\ calls' = [calls EXCEPT ![f] =
                       Finish(c, AIResult(out, out.response),
                              IF ~open THEN "uncaught"
                              ELSE IF stored THEN "success" ELSE "error")]
  /\ UNCHANGED <<variant, client, mem, sess, received, clearResp, clears>>

\* fetch, POST /message: request.json(), then handleMessage(body.content) up
\* to the await of AI.run
agentFetchMessage(a, raw, getOk) ==
  /\ variant = "agent"
  /\ received < MaxFrames
  /\ LET f == received + 1
         history == PushUser(HistoryOf(store[a]), raw.content, f)
     IN /\ received' = f
        /\ IF raw.json = "invalid"
             THEN \* request.json() throws; fetch has no catch
                  /\ calls' = [calls EXCEPT ![f] = Ended(a, Http, raw, "uncaught")]
                  /\ UNCHANGED outbox
             ELSE IF ~getOk
             THEN \* getState throws: the catch of handleMessage
                  /\ calls' = [calls EXCEPT ![f] = Ended(a, Http, raw, "error")]
                  /\ outbox' = Deliver(Http, ErrorFrame(f, ErrHandle))
             ELSE /\ calls' = [calls EXCEPT ![f] =
                                Suspend("ai", a, Http, raw, history, FALSE,
                                        agentMessages(history))]
                  /\ UNCHANGED outbox
  /\ UNCHANGED <<variant, client, store, mem, sess, clearResp, clears>>

\* ================================================================ sdk
\* this.setState({conversationHistory: [], userPreferences, createdAt})
ConnectState ==
  [hasHistory |-> TRUE, conversationHistory |-> <<>>, createdAt |-> TRUE,
   lastInteraction |-> FALSE, userPreferences |-> TRUE]

\* onConnect: runs for every client that connects
onConnect(a, s) ==
  /\ variant = "sdk"
  /\ NextSession(s)
  /\ sess' = Accept(s, a)
  /\ store' = [store EXCEPT ![a] = ConnectState]
  /\ outbox' = Deliver(s, Welcome)
  /\ UNCHANGED <<variant, client, mem, calls, received, clearResp, clears>>

\* clearHistory
clearHistory(a) ==
  /\ variant = "sdk"
  /\ store' = [store EXCEPT ![a] = SetStateHistory(<<>>)]
  /\ clearResp' = [clearResp EXCEPT ![a] =
                     [success |-> TRUE, message |-> "Conversation history cleared"]]
  /\ clears' = Counted
  /\ UNCHANGED <<variant, client, mem, sess, calls, received, outbox>>

\* onMessage up to the await of AI.run (the framework hands over a parsed message)
onMessage(s, raw, getOk) ==
  /\ variant = "sdk"
  /\ sess[s].status = "open"
  /\ received < MaxFrames
  /\ raw.json # "invalid"
  /\ LET f == received + 1
         a == sess[s].actor
         history == PushUser(HistoryOf(store[a]), raw.content, f)
     IN /\ received' = f
        /\ IF ~getOk
             THEN /\ calls' = [calls EXCEPT ![f] = Ended(a, s, raw, "error")]
                  /\ outbox' = Deliver(s, ErrorFrame(f, ErrHandle))
             ELSE /\ calls' = [calls EXCEPT ![f] =
                                Suspend("ai", a, s, raw, history, FALSE,
                                        agentMessages(history))]
                  /\ UNCHANGED outbox
  /\ UNCHANGED <<variant, client, store, mem, sess, clearResp, clears>>

\* onMessage from the return of AI.run; its result goes back to the sender
onMessageResume(f, out, putOk) ==
  /\ variant = "sdk"
  /\ calls[f].pc = "ai"
  /\ LET c == calls[f]
         history == PushAssistant(c.history, out.response, f, Undefined)
         stored == out.kind = "value" /\ putOk
         response == IF stored THEN ReplyFrame(f, out.response, Len(history), Undefined)
                     ELSE ErrorFrame(f, ErrHandle)
     IN /\ store' = IF stored THEN [store EXCEPT ![c.actor] = SetStateHistory(history)]
                    ELSE store
        /\ outbox' = IF SessOpen(c.sess) THEN Deliver(c.sess, response) ELSE outbox
        /\ calls' = [calls EXCEPT ![f] =
                       Finish(c, AIResult(out, out.response),
                              IF stored THEN "success" ELSE "error")]
  /\ UNCHANGED <<variant, client, mem, sess, received, clearResp, clears>>

\* ================================================================ ts
\* aiResponse.response || "I couldn't generate a response."
ReplyText(out) == IF Falsy(out.response) THEN DefaultTextTs ELSE out.response

\* this.setState(this.state)
PersistState(history) ==
  [hasHistory |-> TRUE, conversationHistory |-> history, createdAt |-> FALSE,
   lastInteraction |-> FALSE, userPreferences |-> FALSE]

\* onRequest up to the await of AI.run; the body's message is raw.content
onRequest(a, raw) ==
  /\ variant = "ts"
  /\ received < MaxFrames
  /\ LET f == received + 1
     IN /\ received' = f
        /\ IF raw.json = "invalid"
             THEN \* request.json() throws; nothing catches it
                  /\ calls' = [calls EXCEPT ![f] = Ended(a, Http, raw, "uncaught")]
                  /\ UNCHANGED mem
             ELSE \* messages: this.state.history, all of it
                  /\ mem' = [mem EXCEPT ![a] = PushUser(@, raw.content, f)]
                  /\ calls' = [calls EXCEPT ![f] =
                                Suspend("ai", a, Http, raw, <<>>, FALSE,
                                        PushUser(mem[a], raw.content, f))]
  /\ UNCHANGED <<variant, client, store, sess, outbox, clearResp, clears>>

\* onRequest from the return of AI.run to its Response
onRequestResume(f, out) ==
  /\ variant = "ts"
  /\ calls[f].pc = "ai"
  /\ LET c == calls[f]
         reply == ReplyText(out)
         history == PushAssistant(mem[c.actor], reply, f, Undefined)
     IN IF out.kind # "value"
          THEN \* AI.run rejects; nothing catches it
               /\ calls' = [calls EXCEPT ![f] = Finish(c, "failed", "uncaught")]
               /\ UNCHANGED <<mem, store, outbox>>
          ELSE /\ mem' = [mem EXCEPT ![c.actor] = history]
               /\ store' = [store EXCEPT ![c.actor] = PersistState(history)]
               /\ outbox' = Deliver(Http, ReplyFrame(f, reply, Len(history), Undefined))
               /\ calls' = [calls EXCEPT ![f] = Finish(c, AIResult(out, out.response), "success")]
  /\ UNCHANGED <<variant, client, sess, received, clearResp, clears>>

\* ================================================================ client
\* the page of the search class: currentSearchResults (null: <<>>) and the
\* assistant messages it has shown, each with the sources under it
NoPage == [currentSearchResults |-> <<>>, shown |-> <<>>]

\* addMessage('assistant', content, hasSearch, searchResults): the sources
\* appear if hasSearch && searchResults && searchResults.length > 0
addMessage(page, f, kind, hasSearch, searchResults) ==
  Append(page.shown,
         [f |-> f, kind |-> kind,
          sources |-> IF hasSearch /\ searchResults # <<>> THEN searchResults ELSE <<>>])

\* ws.onmessage of the page, on one frame from the server
onmessage(page, data) ==
  IF data.type \in {"welcome", "status"} THEN page
  ELSE IF data.type = "search" THEN [page EXCEPT !.currentSearchResults = data.results]
  ELSE IF data.type = "reply" /\ ~Falsy(data.response)
    THEN [currentSearchResults |-> <<>>,
          shown |-> addMessage(page, data.f, "reply", data.searchUsed = Bool(TRUE),
                               page.currentSearchResults)]
  ELSE IF data.type = "error" /\ ~Falsy(data.response)
    THEN [page EXCEPT !.shown = addMessage(page, data.f, "error", FALSE, <<>>)]
  ELSE page

\* the page after the frames q, received in order
RECURSIVE PageAfter(_)
PageAfter(q) ==
  IF q = <<>> THEN NoPage
  ELSE onmessage(PageAfter(SubSeq(q, 1, Len(q) - 1)), q[Len(q)])

\* the page of the agent class with HTTP fallback: the frames after which it
\* removed the typing indicator, and the texts it has shown
NoAgentPage == [removed |-> {}, shown |-> <<>>]

\* ws.onmessage of that page: if (data.response) {removeTypingIndicator();
\* addMessage(data.response, 'assistant')}; a frame without response (the
\* error body has success and error only) is dropped
agentOnmessage(page, data) ==
  IF data.type = "reply" /\ ~Falsy(data.response)
    THEN [removed |-> page.removed \cup {data.f},
          shown |-> Append(page.shown, [f |-> data.f, text |-> data.response])]
    ELSE page

\* that page after the frames q, received in order
RECURSIVE AgentPageAfter(_)
AgentPageAfter(q) ==
  IF q = <<>> THEN NoAgentPage
  ELSE agentOnmessage(AgentPageAfter(SubSeq(q, 1, Len(q) - 1)), q[Len(q)])

\* ---------------------------------------------------------------- reconnect
\* const maxReconnectAttempts = 5
maxReconnectAttempts == 5

\* a delay that doubles without a cap
DoublingDelay(k) == 1000 * 2^k

\* Math.min(1000 * Math.pow(2, reconnectAttempts), 10000)
ReconnectDelay(k) == IF 1000 * 2^k < 10000 THEN 1000 * 2^k ELSE 10000

\* an open that leaves the counter as it is
onopenKeeps ==
  /\ variant \in {"basic", "search"}
  /\ client.ws = "connecting"
  /\ client' = [client EXCEPT !.ws = "open"]
  /\ UNCHANGED <<variant, store, mem, sess, calls, received, outbox, clearResp, clears>>

\* ws.onopen
onopen ==
  /\ variant \in {"basic", "search"}
  /\ client.ws = "connecting"
  /\ client' = [client EXCEPT !.ws = "open", !.reconnectAttempts = 0]
  /\ UNCHANGED <<variant, store, mem, sess, calls, received, outbox, clearResp, clears>>

\* ws.onclose, of a socket that was open or never opened
onclose ==
  /\ variant \in {"basic", "search"}
  /\ client.ws \in {"connecting", "open"}
  /\ client' =
       IF client.reconnectAttempts < maxReconnectAttempts
         THEN [ws |-> "closed",
               reconnectAttempts |-> client.reconnectAttempts + 1,
               delay |-> ReconnectDelay(client.reconnectAttempts + 1),
               timers |-> client.timers + 1]
         ELSE [client EXCEPT !.ws = "closed"]
  /\ UNCHANGED <<variant, store, mem, sess, calls, received, outbox, clearResp, clears>>

\* the timer set by onclose fires: connectWebSocket()
connectWebSocket ==
  /\ variant \in {"basic", "search"}
  /\ client.timers > 0
  /\ client' = [client EXCEPT !.ws = "connecting", !.timers = @ - 1]
  /\ UNCHANGED <<variant, store, mem, sess, calls, received, outbox, clearResp, clears>>

\* ================================================================ eviction
\* what an instance starts from when it is activated: the persisted state,
\* or initialState where the class declares one and nothing is persisted
Activated(a) ==
  IF variant # "ts" THEN <<>>
  ELSE IF store[a].hasHistory THEN store[a].conversationHistory ELSE initialState

\* an eviction that takes the persisted state with it
evictAll(a) ==
  /\ \A f \in 1..MaxFrames : calls[f].actor = a => calls[f].pc \notin {"search", "ai"}
  /\ store' = [store EXCEPT ![a] = NoState]
  /\ mem' = [mem EXCEPT ![a] = IF variant = "ts" THEN initialState ELSE <<>>]
  /\ UNCHANGED <<variant, client, sess, calls, received, outbox, clearResp, clears>>

\* the runtime evicts the idle instance of actor a and a later event
\* activates a new one: what the instance held in memory is gone, storage
\* and hibernated websockets stay
evict(a) ==
  /\ \A f \in 1..MaxFrames : calls[f].actor = a => calls[f].pc \notin {"search", "ai"}
  /\ mem' = [mem EXCEPT ![a] = Activated(a)]
  /\ UNCHANGED <<variant, client, store, sess, calls, received, outbox, clearResp, clears>>

\* ================================================================ router
\* fetch of a Durable Object on a request that is no websocket upgrade and
\* whose path is neither /clear nor (agent class) /message: 404
fetchNotFound(a, raw) ==
  /\ variant \in {"basic", "search", "agent"}
  /\ received < MaxFrames
  /\ LET f == received + 1
     IN /\ received' = f
        /\ calls' = [calls EXCEPT ![f] = Ended(a, Http, raw, "notfound")]
        /\ outbox' = Deliver(Http, NotFound(f))
  /\ UNCHANGED <<variant, client, store, mem, sess, clearResp, clears>>

\* what ?id= may carry: a name, or nothing
Ids == Names \cup {Undefined}

\* some request was delivered to actor a
Addressed(a) ==
  \/ store[a] # NoState
  \/ clearResp[a] # NoResponse
  \/ \E s \in Sessions : sess[s].status # "unused" /\ sess[s].actor = a
  \/ \E f \in 1..MaxFrames : calls[f].pc # "idle" /\ calls[f].actor = a

\* an identifier that stands where a generated one belongs
fixedUUID == "A"

\* crypto.randomUUID(): an identifier nothing has used
randomUUID == CHOOSE u \in Uuids : ~Addressed(u)

\* url.searchParams.get("id") || crypto.randomUUID(), then idFromName
agentId(id) == IF Falsy(id) THEN randomUUID ELSE id

\* the router can serve the request (the pool of identifiers is bounded)
Routable(id) == ~Falsy(id) \/ \E u \in Uuids : ~Addressed(u)

\* default.fetch, /agent/clear: POST http://agent/clear to the actor
routeClear(id) ==
  /\ variant \in {"basic", "search", "agent"}
  /\ Routable(id)
  /\ \/ fetchClear(agentId(id))
     \/ agentFetchClear(agentId(id))

\* default.fetch, /agent with Upgrade: websocket, passed through to the actor
routeUpgrade(id, s) ==
  /\ variant \in {"basic", "search", "agent"}
  /\ Routable(id)
  /\ \/ fetchUpgrade(agentId(id), s)
     \/ agentFetchUpgrade(agentId(id), s)

\* default.fetch, POST /agent with a JSON body: the request is passed through
\* with its own path, /agent, which no Durable Object class serves
routePost(id, raw) ==
  /\ Routable(id)
  /\ fetchNotFound(agentId(id), raw)

\* ---------------------------------------------------------------- Next
\* the frames of R worth sending: only the search class reads the words of a
\* text, so the other classes are sent one text
Offered(R) == IF variant = "search" THEN R ELSE R \ {QuestionFrame}

\* one step of the deployment: the requests address the actors As, and the
\* environment's choices are drawn from the frames R, the storage outcomes G,
\* the inference outcomes O and the search outcomes W
Step(As, R, G, O) ==
  \/ \E a \in As, s \in Sessions : fetchUpgrade(a, s)
  \/ \E a \in As : fetchClear(a)
  \/ \E s \in Sessions, raw \in Offered(R), getOk \in G : webSocketMessage(s, raw, getOk)
  \/ \E f \in 1..MaxFrames, out \in O, putOk \in G : webSocketMessageResume(f, out, putOk)
  \/ \E s \in Sessions : webSocketClose(s)
  \/ \E a \in As, s \in Sessions : agentFetchUpgrade(a, s)
  \/ \E a \in As : agentFetchClear(a)
  \/ \E s \in Sessions, raw \in Offered(R), getOk \in G : handleMessage(s, raw, getOk)
  \/ \E f \in 1..MaxFrames, out \in O, putOk \in G : handleMessageResume(f, out, putOk)
  \/ \E a \in As, s \in Sessions : onConnect(a, s)
  \/ \E a \in As : clearHistory(a)
  \/ \E s \in Sessions, raw \in Offered(R), getOk \in G : onMessage(s, raw, getOk)
  \/ \E f \in 1..MaxFrames, out \in O, putOk \in G : onMessageResume(f, out, putOk)
  \/ \E a \in As, raw \in Offered(R) : onRequest(a, raw)
  \/ \E f \in 1..MaxFrames, out \in O : onRequestResume(f, out)

\* one step of the frame handler of the search class
StepSearch(R, G, O, W) ==
  \/ \E s \in Sessions, raw \in Offered(R), getOk \in G : webSocketMessageSearch(s, raw, getOk)
  \/ \E f \in 1..MaxFrames, res \in W : searchWeb(f, res)
  \/ \E f \in 1..MaxFrames, out \in O, putOk \in G : webSocketMessageSearchResume(f, out, putOk)

Next ==
  \/ Step({"A"}, RawFrames, BOOLEAN, AIOutcomes)
  \/ StepSearch(RawFrames, BOOLEAN, AIOutcomes, SearchOutcomes)

Spec == Init /\ [][Next]_vars

\* the classes without web search, receiving chat frames (and text that is
\* not JSON) over storage that works, the inference call returning a text,
\* returning none, or failing
InitChat == Init /\ variant # "search"

NextChat == Step({"A"}, {ChatFrame, InvalidFrame}, {TRUE}, {AIText, AIThrows, AIMissing})

SpecChat == InitChat /\ [][NextChat]_vars

\* ================================================================ claims
Frames == 1..MaxFrames

\* the handler of frame f is between its read of the history and its end
InFlight(f) == calls[f].pc \in {"search", "ai"}

\* the handler of frame f has ended
Done(f) == calls[f].pc = "done"

\* frame f arrived on a websocket
OnSocket(f) == calls[f].pc # "idle" /\ calls[f].sess \in Sessions

\* the history an actor holds: persisted, and in the live instance
Stored(a) == HistoryOf(store[a])

\* the positions of the terminal frames (reply or error) sent to o for frame f
Terminal(o, f) ==
  { i \in DOMAIN outbox[o] : outbox[o][i].f = f /\ outbox[o][i].type \in {"reply", "error"} }

\* history h holds a message of frame f
Holds(h, f) == \E i \in DOMAIN h : h[i].f = f

\* a step is a clear operation on actor a
IsClear(a) == fetchClear(a) \/ agentFetchClear(a) \/ clearHistory(a)

\* the user messages of h are in the order in which their frames arrived
InArrivalOrder(h) ==
  \A i, j \in DOMAIN h :
    (i < j /\ h[i].role = "user" /\ h[j].role = "user") => h[i].f < h[j].f

\* ---------------------------------------------------------------- window
\* an actor that already holds the messages of k earlier chat turns (as
\* many as the context window takes, or more), all sessions of those turns
\* closed
PriorTurns == {MaxTurns - 1, MaxTurns}

\* the stored messages of k earlier turns, oldest first
Prior(k) ==
  [i \in 1..(2 * k) |->
     Message(IF i % 2 = 1 THEN "user" ELSE "assistant", "old" \o ToString(i), 0, Undefined)]

\* the state object that holds them
PriorState(k) ==
  IF k = 0 THEN NoState
  ELSE IF variant = "ts" THEN PersistState(initialState \o Prior(k))
  ELSE IF variant \in {"sdk", "agent"} THEN SetStateHistory(Prior(k))
  ELSE PutHistory(NoState, Prior(k))

InitWindow ==
  /\ variant \in Variants \ {"sdk"}
  /\ client = NoClient
  /\ \E k \in PriorTurns :
       /\ store = [a \in Actors |-> IF a = "A" THEN PriorState(k) ELSE NoState]
       /\ mem = [a \in Actors |-> IF variant # "ts" THEN <<>>
                                  ELSE IF a = "A" THEN initialState \o Prior(k)
                                  ELSE initialState]
  /\ sess = [s \in Sessions |-> [actor |-> "A", status |-> "unused"]]
  /\ calls = [f \in 1..MaxFrames |-> NoCall]
  /\ received = 0
  /\ outbox = [o \in Origins |-> <<>>]
  /\ clearResp = [a \in Actors |-> NoResponse]
  /\ clears = 0

\* the frame handlers of the classes that keep what a connect finds stored:
\* connections open and chat frames (for the search class, questions too)
\* arrive over storage that works, the inference call returns a text or
\* fails, the search fails or finds four results
NextWindow ==
  \/ \E s \in Sessions : fetchUpgrade("A", s)
  \/ \E s \in Sessions : webSocketMessage(s, ChatFrame, TRUE)
  \/ \E f \in 1..MaxFrames, out \in {AIText, AIThrows} : webSocketMessageResume(f, out, TRUE)
  \/ \E s \in Sessions, raw \in {ChatFrame, QuestionFrame} : webSocketMessageSearch(s, raw, TRUE)
  \/ \E f \in 1..MaxFrames, res \in {SearchFailed, [ok |-> TRUE, data |-> Results4]} :
       searchWeb(f, res)
  \/ \E f \in 1..MaxFrames, out \in {AIText, AIThrows} :
       webSocketMessageSearchResume(f, out, TRUE)
  \/ \E s \in Sessions : agentFetchUpgrade("A", s)
  \/ \E s \in Sessions : handleMessage(s, ChatFrame, TRUE)
  \/ \E f \in 1..MaxFrames, out \in {AIText, AIThrows} : handleMessageResume(f, out, TRUE)
  \/ onRequest("A", ChatFrame)
  \/ \E f \in 1..MaxFrames, out \in {AIText, AIThrows} : onRequestResume(f, out)

SpecWindow == InitWindow /\ [][NextWindow]_vars

\* ---------------------------------------------------------------- search
\* the search class alone: chat frames and questions over storage that
\* works, every outcome of the search, the inference call returning a text
\* or failing
InitSearch == Init /\ variant = "search"

NextSearch ==
  \/ \E s \in Sessions : fetchUpgrade("A", s)
  \/ \E s \in Sessions, raw \in {ChatFrame, QuestionFrame} : webSocketMessageSearch(s, raw, TRUE)
  \/ \E f \in 1..MaxFrames, res \in SearchOutcomes : searchWeb(f, res)
  \/ \E f \in 1..MaxFrames, out \in {AIText, AIThrows} :
       webSocketMessageSearchResume(f, out, TRUE)

SpecSearch == InitSearch /\ [][NextSearch]_vars

\* ---------------------------------------------------------------- intent
\* texts a client may send: with and without a keyword, in lower and upper
\* case, and with a keyword inside a longer word
IntentTexts ==
  { "thanks!", "THANKS!", "what is the capital of France",
    "WHAT IS THE CAPITAL OF FRANCE", "refined" }

IntentFrames == { [json |-> "object", type |-> Undefined, content |-> t] : t \in IntentTexts }

\* the search class receiving these texts on one session; the search
\* fails, the inference call returns a text
NextIntent ==
  \/ fetchUpgrade("A", 1)
  \/ \E raw \in IntentFrames : webSocketMessageSearch(1, raw, TRUE)
  \/ \E f \in 1..MaxFrames : searchWeb(f, SearchFailed)
  \/ \E f \in 1..MaxFrames : webSocketMessageSearchResume(f, AIText, TRUE)

SpecIntent == InitSearch /\ [][NextIntent]_vars

\* ---------------------------------------------------------------- agent
\* the agent class alone, taking messages over HTTP and over websockets
InitAgent == Init /\ variant = "agent"

NextAgent ==
  \/ \E s \in Sessions : agentFetchUpgrade("A", s)
  \/ agentFetchClear("A")
  \/ \E raw \in {ChatFrame, NoContentFrame}, getOk \in BOOLEAN : agentFetchMessage("A", raw, getOk)
  \/ \E s \in Sessions, raw \in {ChatFrame, NoContentFrame}, getOk \in BOOLEAN :
       handleMessage(s, raw, getOk)
  \/ \E f \in 1..MaxFrames, out \in {AIText, AIThrows}, putOk \in BOOLEAN :
       handleMessageResume(f, out, putOk)

SpecAgent == InitAgent /\ [][NextAgent]_vars

\* ---------------------------------------------------------------- evict
\* the class that reads storage on every frame and the class that keeps its
\* history in memory, with evictions of the idle instance
InitEvict == Init /\ variant \in {"basic", "ts"}

NextEvict ==
  \/ \E s \in Sessions : fetchUpgrade("A", s)
  \/ fetchClear("A")
  \/ \E s \in Sessions : webSocketMessage(s, ChatFrame, TRUE)
  \/ \E f \in 1..MaxFrames, out \in {AIText, AIThrows}, putOk \in BOOLEAN :
       webSocketMessageResume(f, out, putOk)
  \/ onRequest("A", ChatFrame)
  \/ \E f \in 1..MaxFrames, out \in {AIText, AIThrows} : onRequestResume(f, out)
  \/ evict("A")

SpecEvict == InitEvict /\ [][NextEvict]_vars

\* ---------------------------------------------------------------- page
\* the page of the websocket classes connecting, losing its connection and
\* reconnecting, next to the actor accepting and closing sessions
InitPage == Init /\ variant \in {"basic", "search"}

NextPage ==
  \/ onopen
  \/ onclose
  \/ connectWebSocket
  \/ \E s \in Sessions : fetchUpgrade("A", s)
  \/ \E s \in Sessions : webSocketClose(s)

SpecPage == InitPage /\ [][NextPage]_vars

\* ---------------------------------------------------------------- route
\* the deployments with a router in front of their actors: requests carry
\* an id or none; storage works, the text sent asks for no search, and the
\* inference call returns a text
InitRoute == Init /\ variant \in {"basic", "search", "agent"}

NextRoute ==
  \/ \E id \in Ids, s \in Sessions : routeUpgrade(id, s)
  \/ \E id \in Ids : routeClear(id)
  \/ \E id \in {"A", Undefined} : routePost(id, ChatFrame)
  \/ \E s \in Sessions : webSocketMessage(s, ChatFrame, TRUE)
  \/ \E f \in 1..MaxFrames : webSocketMessageResume(f, AIText, TRUE)
  \/ \E s \in Sessions : webSocketMessageSearch(s, ChatFrame, TRUE)
  \/ \E f \in 1..MaxFrames : webSocketMessageSearchResume(f, AIText, TRUE)
  \/ \E s \in Sessions : handleMessage(s, ChatFrame, TRUE)
  \/ \E f \in 1..MaxFrames : handleMessageResume(f, AIText, TRUE)

SpecRoute == InitRoute /\ [][NextRoute]_vars

\* C1: for one actor, no two frame handlers are at the same time between
\* their read of the history and their end
C1_NoOverlap ==
  \A f, g \in Frames :
    (f # g /\ calls[f].actor = calls[g].actor /\ InFlight(f)) => ~InFlight(g)

\* C2: the user messages of the stored history (and of the live instance's
\* history) appear in the order in which their frames were received
C2_StoredInArrivalOrder ==
  \A a \in Actors : InArrivalOrder(Stored(a)) /\ InArrivalOrder(mem[a])

\* C2 witness: two frames that arrived on different sessions are both stored
C2_Witness ==
  \E i, j \in DOMAIN Stored("A") :
    /\ i < j
    /\ Stored("A")[i].role = "user" /\ Stored("A")[j].role = "user"
    /\ calls[Stored("A")[i].f].sess # calls[Stored("A")[j].f].sess

\* C3: a websocket frame whose handler has ended got exactly one terminal
\* frame on its session: a reply that carries a response text, or an error
C3_OneTerminalFrame ==
  \A f \in Frames :
    (OnSocket(f) /\ Done(f)) =>
      LET o == calls[f].sess IN
        /\ Cardinality(Terminal(o, f)) = 1
        /\ \A i \in Terminal(o, f) :
             outbox[o][i].type = "reply" => ~Falsy(outbox[o][i].response)

\* C4: a frame whose processing raised an exception got an error frame on
\* its session (if it came on one that is still open), and no message of it
\* is in the history, persisted or in memory
C4_FailedFrameLeavesNoTrace ==
  \A f \in Frames :
    (Done(f) /\ calls[f].outcome \in {"error", "uncaught"}) =>
      /\ (OnSocket(f) /\ SessOpen(calls[f].sess)) =>
           \E i \in Terminal(calls[f].sess, f) : outbox[calls[f].sess][i].type = "error"
      /\ ~Holds(Stored(calls[f].actor), f)
      /\ ~Holds(mem[calls[f].actor], f)

\* the frame kinds of the protocol
FrameKinds == {"chat", "research", "save_note", "get_notes", "get_history", "clear_history"}

\* a frame that is malformed, of an unknown kind, or without content (a frame
\* without a type, as the page sends it, counts as a chat frame)
Unrecognised(raw) ==
  \/ raw.json = "invalid"
  \/ raw.type \notin FrameKinds \cup {Undefined}
  \/ raw.content = Undefined

\* C5: a malformed or unrecognised frame is never processed as a chat
\* message: its handler ends with an error frame and stores nothing
C5_UnrecognisedRejected ==
  \A f \in Frames :
    (OnSocket(f) /\ Unrecognised(calls[f].raw)) =>
      /\ Done(f) /\ calls[f].outcome = "error"
      /\ ~Holds(Stored(calls[f].actor), f)
      /\ ~Holds(mem[calls[f].actor], f)

\* C6: when the inference call failed, the turn ended with a reply that
\* carries a text, and that reply is stored after the user message
C6_FallbackReply ==
  \A f \in Frames :
    (OnSocket(f) /\ Done(f) /\ calls[f].ai = "failed") =>
      /\ calls[f].outcome = "success"
      /\ \E i \in Terminal(calls[f].sess, f) :
           /\ outbox[calls[f].sess][i].type = "reply"
           /\ ~Falsy(outbox[calls[f].sess][i].response)
      /\ \E i, j \in DOMAIN Stored(calls[f].actor) :
           /\ i < j
           /\ Stored(calls[f].actor)[i].f = f /\ Stored(calls[f].actor)[i].role = "user"
           /\ Stored(calls[f].actor)[j].f = f /\ Stored(calls[f].actor)[j].role = "assistant"

\* C7: no stored assistant message and no reply has a missing or empty text
C7_NoEmptyAssistant ==
  /\ \A a \in Actors : \A i \in DOMAIN Stored(a) :
       Stored(a)[i].role = "assistant" => ~Falsy(Stored(a)[i].content)
  /\ \A a \in Actors : \A i \in DOMAIN mem[a] :
       mem[a][i].role = "assistant" => ~Falsy(mem[a][i].content)
  /\ \A o \in Origins : \A i \in DOMAIN outbox[o] :
       outbox[o][i].type = "reply" => ~Falsy(outbox[o][i].response)

\* the frame a step sends to origin o, if it sends one
Sent(o) == outbox'[o][Len(outbox'[o])]

\* a step ends the chat turn of frame f with a reply to its session
Completes(f) ==
  /\ OnSocket(f) /\ ~Done(f) /\ calls'[f].pc = "done"
  /\ Len(outbox'[calls[f].sess]) = Len(outbox[calls[f].sess]) + 1
  /\ Sent(calls[f].sess).type = "reply" /\ Sent(calls[f].sess).f = f

\* C8: the step that completes a chat turn on an actor holding n stored
\* messages leaves n+2: the n unchanged, the user message of the frame, the
\* assistant message with the reply's text; the reply reports n+2
C8_TurnAppendsTwo ==
  [][ \A f \in Frames :
        Completes(f) =>
          LET h == HistoryOf(store[calls[f].actor])
              h2 == HistoryOf(store'[calls[f].actor])
              n == Len(h)
              reply == Sent(calls[f].sess)
          IN /\ Len(h2) = n + 2
             /\ SubSeq(h2, 1, n) = h
             /\ h2[n + 1].role = "user" /\ h2[n + 1].content = calls[f].raw.content
             /\ h2[n + 2].role = "assistant" /\ h2[n + 2].content = reply.response
             /\ reply.messageCount = n + 2 ]_vars

\* C9: a clear leaves the history empty and answers success; applied to a
\* history that a clear has emptied, it leaves the same history and answer
C9_ClearEmpties ==
  [][ \A a \in Actors :
        IsClear(a) =>
          /\ HistoryOf(store'[a]) = <<>>
          /\ clearResp'[a].success
          /\ (clearResp[a].success /\ HistoryOf(store[a]) = <<>>) =>
               clearResp'[a] = clearResp[a] ]_vars

\* C9 witness: a turn was stored, and the history is empty after two clears
C9_Witness ==
  /\ clears >= 2
  /\ clearResp["A"].success
  /\ Stored("A") = <<>>
  /\ \E f \in Frames : calls[f].outcome = "success"

\* C10: a non-empty stored history becomes empty only by a clear operation
C10_EmptiedOnlyByClear ==
  [][ \A a \in Actors :
        (HistoryOf(store[a]) # <<>> /\ HistoryOf(store'[a]) = <<>>) => IsClear(a) ]_vars

\* sequence h is the beginning of sequence g
IsPrefix(h, g) == Len(h) <= Len(g) /\ SubSeq(g, 1, Len(h)) = h

\* a step in which the handler of frame f ends
Ends(f) == calls[f].pc # "idle" /\ ~Done(f) /\ calls'[f].pc = "done"

\* C11: the step that ends a frame's handler only appends to the stored
\* history: every message stored before it is still stored after it, at the
\* same place and unaltered
C11_OnlyAppends ==
  [][ \A f \in Frames :
        Ends(f) => IsPrefix(HistoryOf(store[calls[f].actor]),
                            HistoryOf(store'[calls[f].actor])) ]_vars

\* the size of the context window the design names
maxMessages == 10

\* the handler of frame f has made its inference call
Called(f) == calls[f].messages # <<>>

\* the stored messages the handler of a websocket frame f read
ReadBy(f) == SubSeq(calls[f].history, 1, Len(calls[f].history) - 1)

\* the new user message of a websocket frame f
NewUser(f) == calls[f].history[Len(calls[f].history)]

\* context message x is stored message y
Same(x, y) == x.role = y.role /\ x.content = y.content /\ x.f = y.f

\* C12: the context of an inference call is the system directive, then the
\* min(n, 10) most recent of the n stored messages, oldest first, then the
\* new user message
C12_ContextWindow ==
  \A f \in Frames :
    (OnSocket(f) /\ Called(f)) =>
      LET m == calls[f].messages
          recent == SliceLast(ReadBy(f), maxMessages)
      IN /\ Len(m) = Len(recent) + 2
         /\ m[1].role = "system"
         /\ \A i \in DOMAIN recent : Same(m[i + 1], recent[i])
         /\ Same(m[Len(m)], NewUser(f))

\* C13: whatever the length of the history, an inference call is handed at
\* most maxMessages messages besides the system directive and the new user
\* message
C13_ContextBounded ==
  \A f \in Frames : Called(f) => Len(calls[f].messages) <= maxMessages + 2

\* C14: the turn of a websocket frame stores everything its handler read,
\* then its user message, then its assistant message, however many of them
\* were inside the context window
C14_WindowKeepsStore ==
  [][ \A f \in Frames :
        Completes(f) =>
          LET h2 == HistoryOf(store'[calls[f].actor])
          IN /\ Len(h2) = Len(calls[f].history) + 1
             /\ SubSeq(h2, 1, Len(h2) - 1) = calls[f].history
             /\ h2[Len(h2)].role = "assistant" /\ h2[Len(h2)].f = f ]_vars

\* C14 witness: a turn on more than ten stored messages has ended, its
\* context held fewer messages than it read, and all of them are stored
C14_Witness ==
  \E f \in Frames :
    /\ OnSocket(f) /\ Done(f) /\ calls[f].outcome = "success"
    /\ variant \in {"basic", "search"}
    /\ Len(ReadBy(f)) > maxMessages
    /\ Len(calls[f].messages) < Len(ReadBy(f))
    /\ Len(Stored(calls[f].actor)) = Len(ReadBy(f)) + 2
    /\ IsPrefix(ReadBy(f), Stored(calls[f].actor))

\* the stored history of the actor of frame f holds the assistant message
\* that carries text
Persisted(f, text) ==
  \E j \in DOMAIN Stored(calls[f].actor) :
    /\ Stored(calls[f].actor)[j].f = f
    /\ Stored(calls[f].actor)[j].role = "assistant"
    /\ Stored(calls[f].actor)[j].content = text

\* C15: as long as no clear has happened, every success reply delivered to
\* a client is present in the persisted history as an assistant message
C15_PersistBeforeNotify ==
  clears = 0 =>
    \A o \in Origins : \A i \in DOMAIN outbox[o] :
      outbox[o][i].type = "reply" => Persisted(outbox[o][i].f, outbox[o][i].response)

\* C16: the persisted history never holds the user message of a turn without
\* the assistant message of that turn
C16_TurnStoredWhole ==
  \A a \in Actors : \A i \in DOMAIN Stored(a) :
    (Stored(a)[i].role = "user" /\ Stored(a)[i].f \in Frames) =>
      \E j \in DOMAIN Stored(a) :
        Stored(a)[j].role = "assistant" /\ Stored(a)[j].f = Stored(a)[i].f

\* C17: every frame sent while a frame was processed is in the outbox of the
\* session that frame arrived on, and of no other
C17_OriginOnly ==
  \A o \in Origins : \A i \in DOMAIN outbox[o] :
    outbox[o][i].f \in Frames => calls[outbox[o][i].f].sess = o

\* C17 witness: a frame got its terminal frame while another session of the
\* same actor was open, and that session got nothing of it
C17_Witness ==
  \E f \in Frames : \E t \in Sessions :
    /\ OnSocket(f) /\ Done(f)
    /\ Terminal(calls[f].sess, f) # {}
    /\ t # calls[f].sess /\ SessOpen(t) /\ sess[t].actor = calls[f].actor
    /\ \A i \in DOMAIN outbox[t] : outbox[t][i].f # f

\* the frames of sequence q after its first k
Rest(q, k) == SubSeq(q, k + 1, Len(q))

NoResults(res) == ~res.ok \/ res.data = <<>>

\* the frames sent to the session of frame f in a step
SentFor(f) == Rest(outbox'[calls[f].sess], Len(outbox[calls[f].sess]))

\* C19: when the search of a turn came back without results, the handler
\* sends the thinking status only (no error frame, no search frame), makes
\* the inference call, and its prompt carries no search results; and when
\* that call returns, the turn ends with a success reply
C19_SearchFailureDegrades ==
  [][ \A f \in Frames :
        /\ \A res \in SearchOutcomes :
             (searchWeb(f, res) /\ NoResults(res) /\ SessOpen(calls[f].sess)) =>
               /\ SentFor(f) = << StatusFrame(f, "Thinking...") >>
               /\ calls'[f].pc = "ai"
               /\ calls'[f].messages # <<>>
               /\ calls'[f].searchContext = <<>>
        /\ ( /\ Ends(f) /\ calls[f].pc = "ai"
             /\ calls[f].needsSearch /\ calls[f].searchContext = <<>>
             /\ calls'[f].ai # "failed" /\ SessOpen(calls[f].sess) ) =>
               /\ calls'[f].outcome = "success"
               /\ Len(SentFor(f)) = 1 /\ SentFor(f)[1].type = "reply"
               /\ \A i \in DOMAIN outbox'[calls[f].sess] :
                    outbox'[calls[f].sess][i].f = f =>
                      outbox'[calls[f].sess][i].type \in {"status", "reply"} ]_vars

\* C19 witness: a turn with search intent whose search brought nothing has
\* ended with a success reply
C19_Witness ==
  \E f \in Frames :
    /\ variant = "search" /\ Done(f)
    /\ calls[f].needsSearch /\ calls[f].searchContext = <<>>
    /\ calls[f].outcome = "success"
    /\ Terminal(calls[f].sess, f) # {}

\* C20: when the search of a turn returned r > 0 results, the prompt
\* carries the first min(r, 3) of them, in their order, each with at most
\* 500 characters of its text, and the search frame sent to the client lists
\* the same results
C20_FirstThreeResults ==
  [][ \A f \in Frames : \A res \in SearchOutcomes :
        (searchWeb(f, res) /\ ~NoResults(res) /\ SessOpen(calls[f].sess)) =>
          LET r == Len(res.data)
              k == IF r < 3 THEN r ELSE 3
              ctx == calls'[f].searchContext
          IN /\ Len(ctx) = k
             /\ \A i \in 1..k :
                  /\ ctx[i].rank = res.data[i].rank
                  /\ ctx[i].snippet <= 500
                  /\ ctx[i].snippet = IF res.data[i].markdown < 500
                                        THEN res.data[i].markdown ELSE 500
             /\ SentFor(f) = << SearchFrame(f, SubSeq(res.data, 1, k)),
                                StatusFrame(f, "Thinking...") >> ]_vars

\* C20 witness: a search returned more than three results; the prompt of
\* the turn carries three, the first cut from 600 characters to 500, and the
\* client got the search frame
C20_Witness ==
  \E f \in Frames : \E i \in DOMAIN outbox[calls[f].sess] :
    /\ OnSocket(f) /\ Len(calls[f].searchContext) = 3
    /\ outbox[calls[f].sess][i].type = "search" /\ outbox[calls[f].sess][i].f = f
    /\ Len(outbox[calls[f].sess][i].results) = 3
    /\ outbox[calls[f].sess][i].results[1].markdown > 500
    /\ calls[f].searchContext[1].snippet = 500

\* the handler of websocket frame f has passed its search-intent detection
Detected(f) == variant = "search" /\ OnSocket(f) /\ calls[f].history # <<>>

\* character c with its case folded
Fold(c) ==
  IF \E k \in DOMAIN UpperCase : UpperCase[k] = c
    THEN LowerCase[CHOOSE k \in DOMAIN UpperCase : UpperCase[k] = c]
    ELSE c

\* some keyword of the list occurs in the text, letter case aside
ContainsKeyword(text) ==
  \E word \in searchKeywords : \E i \in 0..(Len(Chars(text)) - Len(word)) :
    \A j \in DOMAIN word : Fold(Chars(text)[i + j]) = word[j]

\* two texts that differ in letter case only
SameFolded(t, u) ==
  /\ Len(Chars(t)) = Len(Chars(u))
  /\ \A i \in DOMAIN Chars(t) : Fold(Chars(t)[i]) = Fold(Chars(u)[i])

\* C21: the intent detected for a text is true exactly when the text, its
\* letter case aside, contains a keyword of the list: true for "what is the
\* capital of France", false for "thanks!", and the same for two texts that
\* differ in case only
C21_DetectIntent ==
  \A f \in Frames :
    Detected(f) =>
      /\ calls[f].needsSearch = ContainsKeyword(calls[f].raw.content)
      /\ calls[f].raw.content = "what is the capital of France" => calls[f].needsSearch
      /\ calls[f].raw.content = "thanks!" => ~calls[f].needsSearch
      /\ \A g \in Frames :
           (Detected(g) /\ SameFolded(calls[f].raw.content, calls[g].raw.content)) =>
             calls[g].needsSearch = calls[f].needsSearch

\* C21 witness: the same question was received in lower case and in upper
\* case, and search intent was detected for both
C21_Witness ==
  \E f, g \in Frames :
    /\ Detected(f) /\ Detected(g)
    /\ calls[f].raw.content = "what is the capital of France"
    /\ calls[g].raw.content = "WHAT IS THE CAPITAL OF FRANCE"
    /\ calls[f].needsSearch /\ calls[g].needsSearch

\* the body answering the HTTP request f, as the step sends it
Body(f) == outbox'[Http][Len(outbox'[Http])]

\* a step answers the HTTP request f with a body
Answers(f) ==
  /\ calls[f].pc # "done" /\ calls'[f].pc = "done" /\ calls'[f].sess = Http
  /\ Len(outbox'[Http]) = Len(outbox[Http]) + 1
  /\ Body(f).f = f

\* {success: true, response, messageCount} is the one body with a messageCount
HasCount(body) == body.type = "reply"

\* C22: the body answering a POST /message {content} reports success or an
\* error, and carries a messageCount that equals the number of messages
\* stored after the request
C22_HttpBody ==
  [][ \A f \in Frames :
        (variant = "agent" /\ Answers(f) /\ ~Falsy(calls'[f].raw.content)) =>
          /\ Body(f).type \in {"reply", "error"}
          /\ HasCount(Body(f))
          /\ Body(f).messageCount = Len(HistoryOf(store'[calls'[f].actor])) ]_vars

\* C23: an HTTP POST to /agent?id=X with a JSON body {content} reaches the
\* message handler of actor X (which makes the inference call or answers
\* with a reply or error body) and is never answered with a 404
C23_PostReachesHandler ==
  [][ \A id \in Names :
        (variant = "agent" /\ routePost(id, ChatFrame)) =>
          LET f == received'
          IN /\ calls'[f].actor = id
             /\ \/ calls'[f].pc = "ai"
                \/ /\ Answers(f)
                   /\ Body(f).type \in {"reply", "error"} ]_vars

\* a step leaves what every actor other than a holds as it was
OthersKept(a) == \A b \in Actors \ {a} : store'[b] = store[b] /\ mem'[b] = mem[b]

\* C24: a chat, connect or clear operation addressed to one identifier
\* leaves what is stored under every other identifier unchanged: the clear
\* and connect requests the router delivers, and every step of the handler
\* of a frame an actor received
C24_ActorsIsolated ==
  [][ /\ \A id \in Ids :
           (Routable(id) /\ (routeClear(id) \/ \E s \in Sessions : routeUpgrade(id, s)))
             => OthersKept(agentId(id))
      /\ \A f \in Frames : calls'[f] # calls[f] => OthersKept(calls'[f].actor) ]_vars

\* C24 witness: A and B each completed a turn, then A was cleared, and B
\* still holds its turn
C24_Witness ==
  /\ \E f \in Frames : calls[f].actor = "A" /\ calls[f].outcome = "success"
  /\ clearResp["A"].success /\ Stored("A") = <<>>
  /\ \E g \in Frames :
       calls[g].actor = "B" /\ calls[g].outcome = "success" /\ Holds(Stored("B"), g)

\* the history the next turn of actor a starts from
NextHistory(a) == IF variant = "ts" THEN mem[a] ELSE HistoryOf(store[a])

\* the history that is persisted for actor a
Durable(a) ==
  IF variant = "ts" /\ ~store[a].hasHistory THEN initialState ELSE HistoryOf(store[a])

\* C25: an eviction of the idle actor changes nothing that is persisted, and
\* the next turn after it starts from the persisted history; a completed
\* turn leaves its history persisted, and a clear leaves the empty history
\* persisted
C25_SurvivesEviction ==
  [][ \A a \in Actors :
        /\ evict(a) => /\ store' = store
                       /\ NextHistory(a)' = Durable(a)
        /\ \A f \in Frames :
             (calls[f].actor = a /\ ~Done(f) /\ calls'[f].outcome = "success") =>
               /\ Durable(a)' = NextHistory(a)'
               /\ Holds(Durable(a)', f)
        /\ IsClear(a) => Durable(a)' = <<>> /\ NextHistory(a)' = <<>> ]_vars

\* C25 witness: one request completed and one failed, leaving its user
\* message in memory only; after the eviction the history holds the
\* completed turn and not the failed one
C25_Witness ==
  /\ variant = "ts"
  /\ \E f, g \in Frames :
       /\ calls[g].outcome = "success" /\ Holds(mem["A"], g)
       /\ Done(f) /\ calls[f].ai = "failed" /\ ~Holds(mem["A"], f)
       /\ mem["A"] = Durable("A")

\* C27: a clear or connect request carrying id X is delivered to actor X,
\* whatever was requested before; a request carrying no id is delivered to
\* an actor no request had addressed, so it changes nothing any addressed
\* actor holds
C27_RoutingPerIdentifier ==
  [][ /\ \A id \in Names :
           /\ routeClear(id) => clearResp'[id].success /\ HistoryOf(store'[id]) = <<>>
           /\ \A s \in Sessions : routeUpgrade(id, s) => sess'[s].actor = id
      /\ (routeClear(Undefined) \/ \E s \in Sessions : routeUpgrade(Undefined, s)) =>
           /\ \A a \in Actors : Addressed(a) => store'[a] = store[a] /\ clearResp'[a] = clearResp[a]
           /\ \A s \in Sessions :
                sess'[s] # sess[s] => ~Addressed(sess'[s].actor) ]_vars

\* C27 witness: A completed a turn and still holds it, and two clear
\* requests without an id were served, by two generated identifiers
C27_Witness ==
  /\ \E f \in Frames :
       calls[f].actor = "A" /\ calls[f].outcome = "success" /\ Holds(Stored("A"), f)
  /\ \A u \in Uuids : clearResp[u].success

\* the turn of frame g was stored for actor a, and a clear that completed
\* after it has left the history of a empty (the classes where only a clear
\* empties a history)
ClearedAway(a, g) ==
  /\ variant # "sdk"
  /\ Done(g) /\ calls[g].actor = a /\ calls[g].outcome = "success"
  /\ clearResp[a].success /\ Stored(a) = <<>>

\* C28: once a clear has removed the messages of a turn from the stored
\* history, no step puts them into it again
C28_ClearedStaysCleared ==
  [][ \A a \in Actors, g \in Frames :
        ClearedAway(a, g) => ~Holds(Stored(a)', g) ]_vars

\* in history h every assistant message comes right after the user message
\* of its own frame, and every user message but the last is answered next
Alternates(h) ==
  \A i \in DOMAIN h :
    /\ h[i].role = "assistant" =>
         i > 1 /\ h[i - 1].role = "user" /\ h[i - 1].f = h[i].f
    /\ (h[i].role = "user" /\ i < Len(h)) =>
         h[i + 1].role = "assistant" /\ h[i + 1].f = h[i].f
    /\ h[i].role = "system" => i = 1

\* C29: the persisted history and the one in memory alternate user and
\* assistant after an optional leading system message, each assistant
\* message answering the user message before it, and the context of every
\* inference call ends with the user message of its frame
C29_RolesAlternate ==
  /\ \A a \in Actors : Alternates(Stored(a)) /\ Alternates(mem[a])
  /\ \A f \in Frames :
       Called(f) =>
         LET last == calls[f].messages[Len(calls[f].messages)]
         IN last.role = "user" /\ last.f = f

\* C30: the handler of a websocket frame never ends with an exception that
\* nothing caught, whether or not the session of the frame is still open
C30_NoUncaught ==
  \A f \in Frames : (OnSocket(f) /\ Done(f)) => calls[f].outcome # "uncaught"

\* in the turn of frame f search results were obtained, put into the prompt
\* and sent to the client in a search frame
SearchDone(f) ==
  /\ calls[f].searchContext # <<>>
  /\ \E o \in Origins : \E i \in DOMAIN outbox[o] :
       outbox[o][i].type = "search" /\ outbox[o][i].f = f /\ outbox[o][i].results # <<>>

\* C31: a reply frame says searchUsed = true, and a stored assistant message
\* hasSearch = true, only if the turn obtained search results, put them into
\* the prompt and sent them in a search frame
C31_SearchUsedMeansResults ==
  /\ \A o \in Origins : \A i \in DOMAIN outbox[o] :
       (outbox[o][i].type = "reply" /\ outbox[o][i].searchUsed = Bool(TRUE)) =>
         SearchDone(outbox[o][i].f)
  /\ \A a \in Actors : \A i \in DOMAIN Stored(a) :
       (Stored(a)[i].role = "assistant" /\ Stored(a)[i].hasSearch = Bool(TRUE)) =>
         SearchDone(Stored(a)[i].f)

\* the search results the server sent on session s for the turn of frame f
ResultsSent(s, f) ==
  IF \E i \in DOMAIN outbox[s] : outbox[s][i].type = "search" /\ outbox[s][i].f = f
    THEN outbox[s][CHOOSE i \in DOMAIN outbox[s] :
                     outbox[s][i].type = "search" /\ outbox[s][i].f = f].results
    ELSE <<>>

\* C32: the sources the page shows under a reply are the search results the
\* server sent for the turn of that reply, and none if it sent none
C32_SourcesOfSameTurn ==
  \A s \in Sessions :
    LET shown == PageAfter(outbox[s]).shown
    IN \A i \in DOMAIN shown :
         shown[i].kind = "reply" => shown[i].sources = ResultsSent(s, shown[i].f)

\* C33: when the server has answered a message sent over the websocket with
\* a success frame or an error frame, the page has removed the typing
\* indicator and shows the reply or an error text for it
C33_TurnEndsVisibly ==
  \A s \in Sessions :
    variant = "agent" =>
      \A i \in DOMAIN outbox[s] :
        outbox[s][i].type \in {"reply", "error"} =>
          LET f == outbox[s][i].f
              page == AgentPageAfter(outbox[s])
          IN /\ f \in page.removed
             /\ \E k \in DOMAIN page.shown : page.shown[k].f = f

\* the page is disconnected with its counter at the maximum
Exhausted == client.ws = "closed" /\ client.reconnectAttempts = maxReconnectAttempts

\* the page has given up: disconnected, counter at the maximum, nothing scheduled
GivenUp == Exhausted /\ client.timers = 0

\* C34 as stated: the counter stays within 0..5, and once five closes in a
\* row have brought it to 5 no reconnect is scheduled and the page stays
\* disconnected
C34_AsStated ==
  /\ client.reconnectAttempts \in 0..5
  /\ Exhausted => client.timers = 0

\* C34: the counter stays within 0..5; a close schedules one reconnect and
\* counts it exactly when the counter is below 5; an open resets the counter
\* to 0; and once a close has found the counter at 5 the page schedules
\* nothing and stays disconnected
C34_ReconnectBounded ==
  [][ /\ client.reconnectAttempts \in 0..5 /\ client'.reconnectAttempts \in 0..5
      /\ client.timers \in 0..1 /\ client'.timers \in 0..1
      /\ onclose =>
           IF client.reconnectAttempts < 5
             THEN /\ client'.reconnectAttempts = client.reconnectAttempts + 1
                  /\ client'.timers = client.timers + 1
             ELSE /\ client'.reconnectAttempts = 5
                  /\ client'.timers = client.timers
      /\ (client.ws = "connecting" /\ client'.ws = "open") => client'.reconnectAttempts = 0
      /\ GivenUp => GivenUp' ]_vars

\* C34 witness: the page has given up after the reconnect scheduled by the
\* fifth close failed as well
C34_Witness == GivenUp /\ client.delay = 10000

\* the delays of the reconnect attempts 1..5, in milliseconds
Delays == <<2000, 4000, 8000, 10000, 10000>>

\* C35: the delay of reconnect attempt k (1 <= k <= 5) is 2000, 4000, 8000,
\* 10000, 10000 milliseconds: min(1000 * 2^k, 10000), never above 10000 and
\* never below the delay of the attempt before
C35_ReconnectDelay ==
  [][ (onclose /\ client'.timers > client.timers) =>
        LET k == client'.reconnectAttempts
        IN /\ k \in 1..5
           /\ client'.delay = Delays[k]
           /\ client'.delay <= 10000
           /\ k > 1 => client'.delay >= ReconnectDelay(k - 1) ]_vars

\* C35 witness: the fourth reconnect in a row was scheduled, the first whose
\* doubled delay is cut to 10000
C35_Witness ==
  client.reconnectAttempts = 4 /\ client.timers = 1 /\ client.delay = 10000

\* C36: once the agent state holds a createdAt, every later message turn and
\* every clear leaves it in the state
C36_CreatedAtKept ==
  [][ \A a \in Actors : store[a].createdAt => store'[a].createdAt ]_vars

====
